---- MODULE Spec2Model ----
(***************************************************************************)
(* File-backed job queue of streamlit_app: the job store (job_manager.py), *)
(* the polling worker loop (job_worker.py run_worker_loop) with its        *)
(* heartbeat and PID files, the UI's background submit thread and cancel   *)
(* button (app.py), and the supervisor (supervise.py).                     *)
(*                                                                         *)
(* Every file operation (load_job, save_job, lock_file.exists,             *)
(* lock_file.write_text, lock_file.unlink) is one step; whatever a thread  *)
(* computes on its local copy of the job dict between two file operations  *)
(* is folded into the next file operation.                                 *)
(***************************************************************************)
EXTENDS Integers, Sequences, FiniteSets, TLC

\* ---- bounds ----
NumJobs == 1
NumWorkers == 2
MaxHist == 1
AttemptCap == 3
MaxUpdates == 110
MaxPop == 52
NumListed == 2
NumWriters == 2
NumApiIds == 2
MaxNames == 2
NumBeatJobs == 2
MaxClock == 5

\* ---- program constants ----
MAX_ATTEMPTS == 2
HISTORY_LIMIT == 100
RETENTION_HOURS == 48
MAX_COMPLETED_JOBS == 50
MAX_JOB_AGE_DAYS == 7

Jobs == 1..NumJobs
Workers == 1..NumWorkers

Terminal == {"COMPLETED", "FAILED", "CANCELLED"}

VARIABLES
    dir,      \* dir[j]: "unborn" | "live" | "gone"   (temp/jobs/<id>/ directory)
    store,    \* store[j]: contents of job.json
    lock,     \* lock[j]: the .lock marker file exists
    aged,     \* aged[j]: created_at is older than RETENTION_HOURS
    pc,       \* pc[w]: position of worker loop w
    todo,     \* todo[w]: directory entries the current iterdir() has not yielded yet
    wjob,     \* wjob[w]: job_dir of the current loop iteration (0: none)
    wcopy,    \* wcopy[w]: the local `job` / `meta` dict of worker w
    upc,      \* upc[j]: position of the UI thread _process_job of job j
    uops,     \* uops[j]: update_job calls the UI thread still has to make
    uload,    \* uload[j]: the UI thread is inside update_job, between load and save
    ucopy,    \* ucopy[j]: the dict update_job of the UI thread has loaded
    cpc,      \* position of the script run that handles a Cancel click
    cjob,     \* the job whose Cancel button was clicked (0: none)
    ccopy,    \* the dict update_job of the cancel click has loaded
    cwhen,    \* cwhen[j]: history, the status the first cancel write replaced ("none": no cancel yet)
    wres,     \* wres[w]: how the pipeline call of the current pass ended ("none": not yet)
    hb,       \* temp/worker.heartbeat.json: "absent" | "fresh" | "stale" | "partial"
    pidf,     \* temp/worker.pid exists
    beat,     \* beat[w]: history, worker w has written the heartbeat in its current poll cycle
    spc,      \* position of supervise_loop: "off" | "check" | "act"
    sstale,   \* the supervisor's local `stale`
    sproc,    \* the worker process the supervisor's `proc` handle refers to (0: none)
    ph,       \* the persisted progress_history of one long-running job, entry by entry
    nupd,     \* number of progress updates that job has received
    pop,      \* the jobs directory a retention step works on: a set of [id, status, age]
    was,      \* pop before the last retention step
    last,     \* the last retention step: "none" | "sweep" | "pass"
    ctime,    \* ctime[d]: created_at of listed job d (0: no such job)
    mtime,    \* mtime[d]: st_mtime of the directory of listed job d
    clock,    \* the time of the last file operation under temp/jobs
    listed,   \* the job ids of the last list_jobs() result, in its order
    jf,       \* contents of one job's job.json: "absent" | "empty" | "full"
    tmp,      \* contents of the same job's job.json.tmp
    fpos,     \* fpos[u]: where writer u is inside create_job / save_job
    fat,      \* fat[u]: the path at which the file writer u holds open is found
    how,      \* how[u]: the branch writer u's last write returned by
    seen,     \* what the last load_job / list_jobs read of job.json gave
    disk,     \* the job.json files under temp/jobs, as written (JSON text)
    writable, \* whether temp/jobs can be written to
    cargs,    \* the uploaded file names and the parameters of the submission
    cret,     \* what the last create_job call returned
    shown,    \* the message the Run tab shows after a submission
    lid,      \* the job id of the last load_job call
    lres,     \* the outcome of the last load_job call
    runs,     \* runs[j]: history, the pipeline calls made for job j so far
    hpos,     \* where the worker whose heartbeat is written is: "poll" | "run" | "beat" | "beat_fb" | "off"
    hjob,     \* the `job` dict of that worker's current pass: id and attempts
    hlast,    \* that worker's locals last_job_id and last_job_attempts
    hfile,    \* temp/worker.heartbeat.json: absent, partial, or whole with its document
    hpath,    \* the path of the last GET the health server answered
    resp,     \* the status and body of the health server's last response
    ajob,     \* the worker's `job` dict when a pipeline call has just returned
    ares,     \* which artifacts the returned result carries
    afail,    \* the file operation of the artifact block that raises ("none": none)
    asaved,   \* the job dict as saved after the artifact block
    adone,    \* the artifact block and its save_job have run
    due,      \* due[w]: more than CLEANUP_INTERVAL has passed since worker w's last_cleanup
    due0,     \* due0[w]: history, due[w] when the current poll cycle of w began
    swept,    \* swept[w]: history, w has run _cleanup_jobs in its current poll cycle
    old       \* old[j]: created_at is older than MAX_JOB_AGE_DAYS

vars == <<dir, store, lock, aged, pc, todo, wjob, wcopy, wres, upc, uops, uload, ucopy, cpc, cjob, ccopy, cwhen,
          hb, pidf, beat, spc, sstale, sproc, ph, nupd, pop, was, last,
          ctime, mtime, clock, listed, jf, tmp, fpos, fat, how, seen,
          disk, writable, cargs, cret, shown, lid, lres, runs,
          hpos, hjob, hlast, hfile, hpath, resp,
          ajob, ares, afail, asaved, adone, due, due0, swept, old>>

storeVars == <<dir, store, lock, aged>>
workerVars == <<pc, todo, wjob, wcopy, wres>>
uiVars == <<upc, uops, uload, ucopy>>
cancelVars == <<cpc, cjob, ccopy, cwhen>>
fileVars == <<hb, pidf, beat>>
supVars == <<spc, sstale, sproc>>
histVars == <<ph, nupd>>
sweepVars == <<pop, was, last>>
listVars == <<ctime, mtime, clock, listed>>
diskVars == <<jf, tmp, fpos, fat, how, seen>>
apiVars == <<disk, writable, cargs, cret, shown, lid, lres>>
runVars == <<runs>>
beatVars == <<hpos, hjob, hlast, hfile, hpath, resp>>
artVars == <<ajob, ares, afail, asaved, adone>>
laterVars == <<beatVars, artVars>>
otherVars == <<sweepVars, listVars, diskVars, apiVars, laterVars>>
tickVars == <<due, due0, swept, old>>
extraVars == <<otherVars, runVars, tickVars>>
queueVars == <<storeVars, workerVars, uiVars, cancelVars, fileVars, supVars, histVars, runVars, tickVars>>
notBeat == <<queueVars, sweepVars, listVars, diskVars, apiVars, artVars>>
notArt == <<queueVars, sweepVars, listVars, diskVars, apiVars, beatVars>>

\* the record create_job writes
NewJob ==
    [status |-> "QUEUED", attempts |-> 0, last_error |-> FALSE,
     message |-> "", output_files |-> <<>>, hist |-> 0]

Live(j) == dir[j] = "live"
LiveJobs == {j \in Jobs : Live(j)}

\* save_job: atomic replace of job.json; any failure (directory gone) is swallowed
save_job(j, data) ==
    IF Live(j) THEN [store EXCEPT ![j] = data] ELSE store

\* update_job's kwargs loop applied to a loaded dict; one name per call site
ApplyUpdate(job, op) ==
    CASE op = "running"   -> [job EXCEPT !.status = "RUNNING", !.hist = @ + 1]
      [] op = "failed"    -> [job EXCEPT !.status = "FAILED", !.hist = @ + 1]
      [] op = "completed" -> [job EXCEPT !.status = "COMPLETED", !.hist = @ + 1]
      [] op = "cancel"    -> [job EXCEPT !.status = "CANCELLED", !.hist = @ + 1]
      [] op = "progress"  -> [job EXCEPT !.hist = @ + 1]
      [] op = "csv"       -> [job EXCEPT !.output_files = Append(@, "csv")]
      [] op = "plots"     -> [job EXCEPT !.output_files = Append(@, "plots")]

QueueInit ==
    /\ dir = [j \in Jobs |-> "unborn"]
    /\ store = [j \in Jobs |-> NewJob]
    /\ lock = [j \in Jobs |-> FALSE]
    /\ aged = [j \in Jobs |-> FALSE]
    /\ pc = [w \in Workers |-> "off"]
    /\ todo = [w \in Workers |-> {}]
    /\ wjob = [w \in Workers |-> 0]
    /\ wcopy = [w \in Workers |-> NewJob]
    /\ wres = [w \in Workers |-> "none"]
    /\ upc = [j \in Jobs |-> "idle"]
    /\ uops = [j \in Jobs |-> <<>>]
    /\ uload = [j \in Jobs |-> FALSE]
    /\ ucopy = [j \in Jobs |-> NewJob]
    /\ cpc = "idle"
    /\ cjob = 0
    /\ ccopy = NewJob
    /\ cwhen = [j \in Jobs |-> "none"]
    /\ hb = "absent"
    /\ pidf = FALSE
    /\ beat = [w \in Workers |-> FALSE]
    /\ spc = "off"
    /\ sstale = FALSE
    /\ sproc = 0
    /\ ph = <<>>
    /\ nupd = 0
    /\ runs = [j \in Jobs |-> 0]
    /\ due = [w \in Workers |-> FALSE]
    /\ due0 = [w \in Workers |-> FALSE]
    /\ swept = [w \in Workers |-> FALSE]
    /\ old = [j \in Jobs |-> FALSE]

\* no population under retention
SweepIdle ==
    /\ pop = {}
    /\ was = {}
    /\ last = "none"

\* the jobs the Job Queue tab lists
ListIds == 1..NumListed

\* nothing to list yet
ListIdle ==
    /\ ctime = [d \in ListIds |-> 0]
    /\ mtime = [d \in ListIds |-> 0]
    /\ clock = 0
    /\ listed = <<>>

\* the threads and processes that write one job's record
Writers == 1..NumWriters

\* the job directory was just made, nobody is writing
DiskIdle ==
    /\ jf = "absent"
    /\ tmp = "absent"
    /\ fpos = [u \in Writers |-> "idle"]
    /\ fat = [u \in Writers |-> "none"]
    /\ how = [u \in Writers |-> "none"]
    /\ seen = "none"

\* the job ids uuid4 can give
ApiIds == 1..NumApiIds

\* Python values a parameter of the submission form can have, as literals
PyValues == {"True", "False", "None", "4", "0.9", "'card.fasta'"}

\* the keys of the params dict
ParamKeys == {"threads", "mock_mode"}

\* the names of uploaded files
FileNames == {"a.fasta", "b.fasta"}

\* lists of at most n names
NameLists(n) == UNION {[1..k -> FileNames] : k \in 0..n}

\* what a submission passes to create_job: the names of the uploads and a
\* params dict
Inputs ==
    [files : NameLists(MaxNames),
     params : UNION {[K -> PyValues] : K \in SUBSET ParamKeys}]

\* nothing was returned or raised yet
NoOutcome == [kind |-> "none", id |-> 0]

\* no job was submitted or loaded
ApiIdle ==
    /\ disk = {}
    /\ writable = TRUE
    /\ cargs = [files |-> <<>>, params |-> <<>>]
    /\ cret = NoOutcome
    /\ shown = "none"
    /\ lid = 0
    /\ lres = [raised |-> "none", value |-> <<>>]

\* the jobs the heartbeat worker processes
BeatIds == 1..NumBeatJobs

\* the Python literal of a job id or an attempts count
Lit(n) == ToString(n)

\* last_job_id = None, last_job_attempts = 0
NoLastJob == [id |-> "None", attempts |-> Lit(0)]

\* no heartbeat document
NoDoc == [status |-> "", last_job_id |-> "", last_job_attempts |-> ""]

\* the worker is polling and has written no heartbeat, no request was made
BeatIdle ==
    /\ hpos = "poll"
    /\ hjob = NoLastJob
    /\ hlast = NoLastJob
    /\ hfile = [state |-> "absent", doc |-> NoDoc]
    /\ hpath = ""
    /\ resp = [status |-> 0, body |-> NoDoc]

\* a job in its first attempt, as the worker holds it during the pipeline call
RunningJob(a, notes) ==
    [status |-> "RUNNING", attempts |-> a, message |-> "",
     worker_notes |-> notes, output_files |-> <<>>]

\* no pipeline call has returned
ArtIdle ==
    /\ ajob = RunningJob(1, <<>>)
    /\ ares = [csv |-> FALSE, plots |-> FALSE]
    /\ afail = "none"
    /\ asaved = RunningJob(1, <<>>)
    /\ adone = FALSE

\* the variables added after the queue, retention, listing, file and store
\* parts are at rest
LaterIdle == BeatIdle /\ ArtIdle

Init ==
    /\ QueueInit
    /\ SweepIdle
    /\ ListIdle
    /\ DiskIdle
    /\ ApiIdle
    /\ LaterIdle

\* ---------------------------------------------------------------------------
\* Job store (job_manager.py)

\* create_job: a fresh uuid directory with the initial QUEUED record
create_job(j) ==
    /\ dir[j] = "unborn"
    /\ dir' = [dir EXCEPT ![j] = "live"]
    /\ store' = [store EXCEPT ![j] = NewJob]
    /\ UNCHANGED <<lock, aged>>

\* time passes: the job's created_at falls behind the retention cutoff
Age(j) ==
    /\ Live(j)
    /\ ~aged[j]
    /\ aged' = [aged EXCEPT ![j] = TRUE]
    /\ UNCHANGED <<dir, store, lock, workerVars, uiVars, cancelVars, fileVars, supVars, histVars, extraVars>>

\* time passes: the job's created_at falls behind the age ceiling
Old(j) ==
    /\ Live(j)
    /\ aged[j]
    /\ ~old[j]
    /\ old' = [old EXCEPT ![j] = TRUE]
    /\ UNCHANGED <<due, due0, swept, storeVars, workerVars, uiVars, cancelVars, fileVars, supVars, histVars, otherVars, runVars>>

\* time passes: more than CLEANUP_INTERVAL since worker w's last_cleanup
CleanupDue(w) ==
    /\ pc[w] \notin {"off", "done", "recover", "recover_save"}
    /\ ~due[w]
    /\ due' = [due EXCEPT ![w] = TRUE]
    /\ UNCHANGED <<due0, swept, old, storeVars, workerVars, uiVars, cancelVars, fileVars, supVars, histVars, otherVars, runVars>>

\* ---------------------------------------------------------------------------
\* Worker loop (job_worker.py run_worker_loop)

Idle(w) == /\ wjob' = [wjob EXCEPT ![w] = 0]
           /\ wcopy' = [wcopy EXCEPT ![w] = NewJob]
           /\ wres' = [wres EXCEPT ![w] = "none"]

\* a worker loop starts: app.py bootstrap thread, or the supervisor's process
StartWorker(w) ==
    /\ pc[w] \in {"off", "done"}
    /\ pc' = [pc EXCEPT ![w] = "recover"]
    /\ todo' = [todo EXCEPT ![w] = LiveJobs]
    /\ pidf' = TRUE
    /\ UNCHANGED <<wjob, wcopy, wres, hb, beat, storeVars, uiVars, cancelVars, supVars, histVars, extraVars>>

\* as RecoverLoad, but a job whose lock marker exists is left alone
RecoverLoadSkipLocked(w) ==
    /\ pc[w] = "recover"
    /\ \E j \in todo[w] :
         /\ todo' = [todo EXCEPT ![w] = @ \ {j}]
         /\ IF Live(j) /\ store[j].status = "RUNNING" /\ ~lock[j]
            THEN /\ pc' = [pc EXCEPT ![w] = "recover_save"]
                 /\ wjob' = [wjob EXCEPT ![w] = j]
                 /\ wcopy' = [wcopy EXCEPT ![w] = [store[j] EXCEPT !.status = "QUEUED"]]
                 /\ UNCHANGED wres
            ELSE UNCHANGED <<pc, wjob, wcopy, wres>>
    /\ UNCHANGED <<storeVars, uiVars, cancelVars, fileVars, supVars, histVars, extraVars>>

\* startup recovery, load_job of one directory entry
RecoverLoad(w) ==
    /\ pc[w] = "recover"
    /\ \E j \in todo[w] :
         /\ todo' = [todo EXCEPT ![w] = @ \ {j}]
         /\ IF Live(j) /\ store[j].status = "RUNNING"
            THEN /\ pc' = [pc EXCEPT ![w] = "recover_save"]
                 /\ wjob' = [wjob EXCEPT ![w] = j]
                 /\ wcopy' = [wcopy EXCEPT ![w] = [store[j] EXCEPT !.status = "QUEUED"]]
                 /\ UNCHANGED wres
            ELSE UNCHANGED <<pc, wjob, wcopy, wres>>
    /\ UNCHANGED <<storeVars, uiVars, cancelVars, fileVars, supVars, histVars, extraVars>>

\* startup recovery, save_job of the re-queued record
RecoverSave(w) ==
    /\ pc[w] = "recover_save"
    /\ store' = save_job(wjob[w], wcopy[w])
    /\ pc' = [pc EXCEPT ![w] = "recover"]
    /\ Idle(w)
    /\ UNCHANGED <<dir, lock, aged, todo, uiVars, cancelVars, fileVars, supVars, histVars, extraVars>>

\* recovery scan exhausted: enter `while True` and open the first iterdir()
RecoverDone(w) ==
    /\ pc[w] = "recover"
    /\ todo[w] = {}
    /\ pc' = [pc EXCEPT ![w] = "poll"]
    /\ todo' = [todo EXCEPT ![w] = LiveJobs]
    /\ UNCHANGED <<wjob, wcopy, wres, storeVars, uiVars, cancelVars, fileVars, supVars, histVars, extraVars>>

\* poll iteration: load_job and the status tests
PollLoad(w) ==
    /\ pc[w] = "poll"
    /\ \E j \in todo[w] :
         /\ todo' = [todo EXCEPT ![w] = @ \ {j}]
         /\ IF Live(j) /\ store[j].status = "QUEUED"
            THEN /\ pc' = [pc EXCEPT ![w] = "chk"]
                 /\ wjob' = [wjob EXCEPT ![w] = j]
                 /\ wcopy' = [wcopy EXCEPT ![w] = store[j]]
                 /\ UNCHANGED wres
            ELSE UNCHANGED <<pc, wjob, wcopy, wres>>
    /\ UNCHANGED <<storeVars, uiVars, cancelVars, fileVars, supVars, histVars, extraVars>>

\* as CheckLock, but with the test inverted
CheckLockInverted(w) ==
    /\ pc[w] = "chk"
    /\ IF ~lock[wjob[w]]
       THEN /\ pc' = [pc EXCEPT ![w] = "poll"]
            /\ Idle(w)
       ELSE /\ pc' = [pc EXCEPT ![w] = "lock"]
            /\ UNCHANGED <<wjob, wcopy, wres>>
    /\ UNCHANGED <<todo, storeVars, uiVars, cancelVars, fileVars, supVars, histVars, extraVars>>

\* lock_file.exists()
CheckLock(w) ==
    /\ pc[w] = "chk"
    /\ IF lock[wjob[w]]
       THEN /\ pc' = [pc EXCEPT ![w] = "poll"]
            /\ Idle(w)
       ELSE /\ pc' = [pc EXCEPT ![w] = "lock"]
            /\ UNCHANGED <<wjob, wcopy, wres>>
    /\ UNCHANGED <<todo, storeVars, uiVars, cancelVars, fileVars, supVars, histVars, extraVars>>

\* lock_file.write_text(...); an exception (directory gone) skips the job
WriteLock(w) ==
    /\ pc[w] = "lock"
    /\ IF Live(wjob[w])
       THEN /\ lock' = [lock EXCEPT ![wjob[w]] = TRUE]
            /\ pc' = [pc EXCEPT ![w] = "bump"]
            /\ UNCHANGED <<wjob, wcopy, wres>>
       ELSE /\ pc' = [pc EXCEPT ![w] = "poll"]
            /\ Idle(w)
            /\ UNCHANGED lock
    /\ UNCHANGED <<dir, store, aged, todo, uiVars, cancelVars, fileVars, supVars, histVars, extraVars>>

\* bump attempt counter, status RUNNING, save_job
Bump(w) ==
    /\ pc[w] = "bump"
    /\ wcopy[w].attempts < AttemptCap
    /\ LET job == [wcopy[w] EXCEPT !.attempts = @ + 1, !.status = "RUNNING"]
       IN /\ wcopy' = [wcopy EXCEPT ![w] = job]
          /\ store' = save_job(wjob[w], job)
    /\ pc' = [pc EXCEPT ![w] = "run"]
    /\ runs' = [runs EXCEPT ![wjob[w]] = @ + 1]
    /\ UNCHANGED <<dir, lock, aged, todo, wjob, wres, uiVars, cancelVars, fileVars, supVars, histVars, tickVars, otherVars>>

\* append-then-truncate of progress_history
Truncated(n) == IF n > HISTORY_LIMIT THEN HISTORY_LIMIT ELSE n

\* progress_hook(p), called by the pipeline while it runs
progress_hook(w) ==
    /\ pc[w] = "run"
    /\ wcopy[w].hist < MaxHist
    /\ LET job == [wcopy[w] EXCEPT !.hist = Truncated(@ + 1)]
       IN /\ wcopy' = [wcopy EXCEPT ![w] = job]
          /\ store' = save_job(wjob[w], job)
    /\ UNCHANGED <<dir, lock, aged, pc, todo, wjob, wres, uiVars, cancelVars, fileVars, supVars, histVars, extraVars>>

\* artifacts a returned result carries, in the order the worker records them
Artifacts == {<<>>, <<"csv">>}

\* what one run_detection_and_collect call can do:
\*   "ok"       run_pipeline returned, result dict with status COMPLETED
\*   "pipefail" run_pipeline raised inside handlers.py, _failure(...) dict returned
\*   "raise"    an exception leaves the call expression itself
Outcomes ==
    {[kind |-> "ok", files |-> a] : a \in Artifacts}
      \cup {[kind |-> "pipefail", files |-> <<>>], [kind |-> "raise", files |-> <<>>]}

\* as AfterRun, but the retry test reads attempts <= MAX_ATTEMPTS
AfterRunRetryOnceMore(job, o) ==
    IF o.kind = "raise"
    THEN IF job.attempts <= MAX_ATTEMPTS
         THEN [job EXCEPT !.status = "QUEUED", !.last_error = TRUE, !.message = "exc"]
         ELSE [job EXCEPT !.status = "FAILED", !.last_error = TRUE, !.message = "exc"]
    ELSE [job EXCEPT !.status = "COMPLETED",
                     !.message = IF o.kind = "ok" THEN "Run completed"
                                 ELSE "Pipeline execution failed",
                     !.output_files = o.files]

\* the worker's `job` dict after the try/except around the pipeline call
AfterRun(job, o) ==
    IF o.kind = "raise"
    THEN IF job.attempts < MAX_ATTEMPTS
         THEN [job EXCEPT !.status = "QUEUED", !.last_error = TRUE, !.message = "exc"]
         ELSE [job EXCEPT !.status = "FAILED", !.last_error = TRUE, !.message = "exc"]
    ELSE [job EXCEPT !.status = "COMPLETED",
                     !.message = IF o.kind = "ok" THEN "Run completed"
                                 ELSE "Pipeline execution failed",
                     !.output_files = o.files]

\* the pipeline call ends and the worker saves the outcome
Finish(w) ==
    /\ pc[w] = "run"
    /\ \E o \in Outcomes :
         LET job == AfterRun(wcopy[w], o)
         IN /\ wcopy' = [wcopy EXCEPT ![w] = job]
            /\ store' = save_job(wjob[w], job)
            /\ wres' = [wres EXCEPT ![w] = o.kind]
    /\ pc' = [pc EXCEPT ![w] = "unlock"]
    /\ UNCHANGED <<dir, lock, aged, todo, wjob, uiVars, cancelVars, fileVars, supVars, histVars, extraVars>>

\* as Unlock, but the marker is removed in the except branch's place only when
\* the pipeline call returned
UnlockUnlessRaised(w) ==
    /\ pc[w] = "unlock"
    /\ lock' = IF wres[w] = "raise" THEN lock ELSE [lock EXCEPT ![wjob[w]] = FALSE]
    /\ pc' = [pc EXCEPT ![w] = "beat"]
    /\ UNCHANGED <<dir, store, aged, todo, wjob, wcopy, wres, uiVars, cancelVars, fileVars, supVars, histVars, extraVars>>

\* finally: remove the lock marker
Unlock(w) ==
    /\ pc[w] = "unlock"
    /\ lock' = [lock EXCEPT ![wjob[w]] = FALSE]
    /\ pc' = [pc EXCEPT ![w] = "beat"]
    /\ UNCHANGED <<dir, store, aged, todo, wjob, wcopy, wres, uiVars, cancelVars, fileVars, supVars, histVars, extraVars>>

\* jobs _cleanup_jobs deletes: COMPLETED or FAILED and past the age ceiling
\* (the count rule needs more than MAX_COMPLETED_JOBS jobs)
Swept == {j \in LiveJobs : store[j].status \in {"COMPLETED", "FAILED"} /\ old[j]}

\* "periodic cleanup", the last statement of the for body: _cleanup_jobs() and
\* last_cleanup = now when the interval has passed
PeriodicCleanup(w) ==
    IF due[w]
    THEN /\ dir' = [j \in Jobs |-> IF j \in Swept THEN "gone" ELSE dir[j]]
         /\ store' = [j \in Jobs |-> IF j \in Swept THEN NewJob ELSE store[j]]
         /\ lock' = [j \in Jobs |-> IF j \in Swept THEN FALSE ELSE lock[j]]
         /\ due' = [due EXCEPT ![w] = FALSE]
         /\ swept' = [swept EXCEPT ![w] = TRUE]
         /\ UNCHANGED <<due0, old>>
    ELSE UNCHANGED <<dir, store, lock, tickVars>>

\* the heartbeat write that follows a pass: _atomic_write, os.replace succeeds;
\* the cleanup check; then on to the next directory entry
Heartbeat(w) ==
    /\ pc[w] = "beat"
    /\ hb' = "fresh"
    /\ beat' = [beat EXCEPT ![w] = TRUE]
    /\ pc' = [pc EXCEPT ![w] = "poll"]
    /\ Idle(w)
    /\ PeriodicCleanup(w)
    /\ UNCHANGED <<pidf, todo, aged, uiVars, cancelVars, supVars, histVars, otherVars, runVars>>

\* _atomic_write, os.replace raises: the fallback path.write_text opens the
\* heartbeat file in place, which empties it
HeartbeatFallback(w) ==
    /\ pc[w] = "beat"
    /\ hb' = "partial"
    /\ pc' = [pc EXCEPT ![w] = "beat_fb"]
    /\ UNCHANGED <<pidf, beat, todo, wjob, wcopy, wres, storeVars, uiVars, cancelVars, supVars, histVars, extraVars>>

\* the fallback write_text completes
HeartbeatFlush(w) ==
    /\ pc[w] = "beat_fb"
    /\ hb' = "fresh"
    /\ beat' = [beat EXCEPT ![w] = TRUE]
    /\ pc' = [pc EXCEPT ![w] = "poll"]
    /\ Idle(w)
    /\ PeriodicCleanup(w)
    /\ UNCHANGED <<pidf, todo, aged, uiVars, cancelVars, supVars, histVars, otherVars, runVars>>

\* jobs the per-cycle retention pass deletes
Expired == {j \in LiveJobs : store[j].status \in Terminal /\ aged[j]}

\* iterdir() exhausted: retention pass, sleep, next cycle
EndCycle(w) ==
    /\ pc[w] = "poll"
    /\ todo[w] = {}
    /\ dir' = [j \in Jobs |-> IF j \in Expired THEN "gone" ELSE dir[j]]
    /\ store' = [j \in Jobs |-> IF j \in Expired THEN NewJob ELSE store[j]]
    /\ lock' = [j \in Jobs |-> IF j \in Expired THEN FALSE ELSE lock[j]]
    /\ todo' = [todo EXCEPT ![w] = LiveJobs \ Expired]
    /\ beat' = [beat EXCEPT ![w] = FALSE]
    /\ swept' = [swept EXCEPT ![w] = FALSE]
    /\ due0' = [due0 EXCEPT ![w] = due[w]]
    /\ UNCHANGED <<aged, pc, wjob, wcopy, wres, hb, pidf, due, old, uiVars, cancelVars, supVars, histVars, otherVars, runVars>>

\* the locals of a run_worker_loop call that has ended; the next call sets
\* last_cleanup = now
TickReset(w) ==
    /\ due' = [due EXCEPT ![w] = FALSE]
    /\ due0' = [due0 EXCEPT ![w] = FALSE]
    /\ swept' = [swept EXCEPT ![w] = FALSE]
    /\ UNCHANGED old

\* the worker process is killed (supervisor restart) or dies
Kill(w) ==
    /\ pc[w] \notin {"off", "done"}
    /\ pc' = [pc EXCEPT ![w] = "off"]
    /\ todo' = [todo EXCEPT ![w] = {}]
    /\ beat' = [beat EXCEPT ![w] = FALSE]
    /\ Idle(w)
    /\ TickReset(w)
    /\ UNCHANGED <<hb, pidf, storeVars, uiVars, cancelVars, supVars, histVars, otherVars, runVars>>

\* the worker process dies in the middle of a pipeline call, while no marker of
\* an earlier death is left
Crash(w) ==
    /\ pc[w] = "run"
    /\ \A j \in Jobs : lock[j] => \E v \in Workers : wjob[v] = j /\ pc[v] \in {"bump", "run", "unlock"}
    /\ Kill(w)

\* a KeyboardInterrupt, or an exception of iterdir() or sleep, leaves the
\* `while True` loop; inside the try around the pipeline call the inner
\* finally removes the lock marker on the way out
Interrupt(w) ==
    /\ pc[w] \in {"poll", "chk", "lock", "bump", "run", "beat"}
    /\ lock' = IF pc[w] = "run" THEN [lock EXCEPT ![wjob[w]] = FALSE] ELSE lock
    /\ pc' = [pc EXCEPT ![w] = "exit_pid"]
    /\ todo' = [todo EXCEPT ![w] = {}]
    /\ beat' = [beat EXCEPT ![w] = FALSE]
    /\ Idle(w)
    /\ TickReset(w)
    /\ UNCHANGED <<dir, store, aged, hb, pidf, uiVars, cancelVars, supVars, histVars, otherVars, runVars>>

\* outer finally: PID_FILE.unlink()
ExitPid(w) ==
    /\ pc[w] = "exit_pid"
    /\ pidf' = FALSE
    /\ pc' = [pc EXCEPT ![w] = "exit_hb"]
    /\ UNCHANGED <<hb, beat, todo, wjob, wcopy, wres, storeVars, uiVars, cancelVars, supVars, histVars, extraVars>>

\* as ExitHb, but the heartbeat file is left in place
ExitHbKeep(w) ==
    /\ pc[w] = "exit_hb"
    /\ hb' = hb
    /\ pc' = [pc EXCEPT ![w] = "done"]
    /\ UNCHANGED <<pidf, beat, todo, wjob, wcopy, wres, storeVars, uiVars, cancelVars, supVars, histVars, extraVars>>

\* outer finally: HEARTBEAT_FILE.unlink(); run_worker_loop returns
ExitHb(w) ==
    /\ pc[w] = "exit_hb"
    /\ hb' = "absent"
    /\ pc' = [pc EXCEPT ![w] = "done"]
    /\ UNCHANGED <<pidf, beat, todo, wjob, wcopy, wres, storeVars, uiVars, cancelVars, supVars, histVars, extraVars>>

\* ---------------------------------------------------------------------------
\* UI (app.py)

\* a submitter that only calls job_manager.create_job
CreateJob(j) ==
    /\ create_job(j)
    /\ UNCHANGED <<workerVars, uiVars, cancelVars, fileVars, supVars, histVars, extraVars>>

\* "Submit as background job": create_job, then the _process_job thread starts
\* and its first statement is update_job(jid, status="RUNNING", ...)
SubmitJob(j) ==
    /\ create_job(j)
    /\ upc' = [upc EXCEPT ![j] = "exec"]
    /\ uops' = [uops EXCEPT ![j] = <<"running">>]
    /\ UNCHANGED <<uload, ucopy, workerVars, cancelVars, fileVars, supVars, histVars, extraVars>>

\* the update_job call that ends is the thread's first statement: its
\* run_detection_and_collect call comes next
UiCallStarts(j) == upc[j] = "exec" /\ Head(uops[j]) = "running"

\* the pipeline calls made for the jobs, one more for j when the UI thread's
\* call starts
UiRuns(j) == IF UiCallStarts(j) THEN [runs EXCEPT ![j] = @ + 1] ELSE runs

\* update_job of the UI thread, load_job half; a missing job returns at once
UiLoad(j) ==
    /\ uops[j] # <<>>
    /\ ~uload[j]
    /\ IF Live(j)
       THEN /\ uload' = [uload EXCEPT ![j] = TRUE]
            /\ ucopy' = [ucopy EXCEPT ![j] = ApplyUpdate(store[j], Head(uops[j]))]
            /\ UNCHANGED uops
       ELSE /\ uops' = [uops EXCEPT ![j] = Tail(@)]
            /\ UNCHANGED <<uload, ucopy>>
    /\ runs' = IF Live(j) THEN runs ELSE UiRuns(j)
    /\ UNCHANGED <<upc, storeVars, workerVars, cancelVars, fileVars, supVars, histVars, tickVars, otherVars>>

\* update_job of the UI thread, save_job half
UiSave(j) ==
    /\ uload[j]
    /\ store' = save_job(j, ucopy[j])
    /\ uload' = [uload EXCEPT ![j] = FALSE]
    /\ ucopy' = [ucopy EXCEPT ![j] = NewJob]
    /\ uops' = [uops EXCEPT ![j] = Tail(@)]
    /\ runs' = UiRuns(j)
    /\ UNCHANGED <<upc, dir, lock, aged, workerVars, cancelVars, fileVars, supVars, histVars, tickVars, otherVars>>

\* _progress_hook(m) of the UI thread's own pipeline call
UiProgress(j) ==
    /\ upc[j] = "exec"
    /\ uops[j] = <<>>
    /\ Live(j) /\ store[j].hist < MaxHist
    /\ uops' = [uops EXCEPT ![j] = <<"progress">>]
    /\ UNCHANGED <<upc, uload, ucopy, storeVars, workerVars, cancelVars, fileVars, supVars, histVars, extraVars>>

\* the update_job calls that follow the UI thread's pipeline call (or a failed
\* upload): FAILED on an exception, else the result files and COMPLETED
UiTail(o) ==
    IF o.kind = "raise" THEN <<"failed">> ELSE o.files \o <<"completed">>

UiFinish(j) ==
    /\ upc[j] = "exec"
    /\ uops[j] = <<>>
    /\ \E o \in Outcomes : uops' = [uops EXCEPT ![j] = UiTail(o)]
    /\ upc' = [upc EXCEPT ![j] = "end"]
    /\ UNCHANGED <<uload, ucopy, storeVars, workerVars, cancelVars, fileVars, supVars, histVars, extraVars>>

\* Job Queue tab: list_jobs() shows the job QUEUED or RUNNING, Cancel is clicked
CancelClick(j) ==
    /\ cpc = "idle"
    /\ Live(j)
    /\ store[j].status \in {"QUEUED", "RUNNING"}
    /\ cpc' = "clicked"
    /\ cjob' = j
    /\ UNCHANGED <<ccopy, cwhen, storeVars, workerVars, uiVars, fileVars, supVars, histVars, extraVars>>

\* update_job(j, status="CANCELLED", ...), load_job half
CancelLoad ==
    /\ cpc = "clicked"
    /\ IF Live(cjob)
       THEN /\ cpc' = "loaded"
            /\ ccopy' = ApplyUpdate(store[cjob], "cancel")
            /\ UNCHANGED cjob
       ELSE /\ cpc' = "idle"
            /\ cjob' = 0
            /\ UNCHANGED ccopy
    /\ UNCHANGED <<cwhen, storeVars, workerVars, uiVars, fileVars, supVars, histVars, extraVars>>

\* update_job(j, status="CANCELLED", ...), save_job half
CancelSave ==
    /\ cpc = "loaded"
    /\ store' = save_job(cjob, ccopy)
    /\ cwhen' = [cwhen EXCEPT ![cjob] = IF Live(cjob) /\ @ = "none" THEN store[cjob].status ELSE @]
    /\ cpc' = "idle"
    /\ cjob' = 0
    /\ ccopy' = NewJob
    /\ UNCHANGED <<dir, lock, aged, workerVars, uiVars, fileVars, supVars, histVars, extraVars>>

\* ---------------------------------------------------------------------------
\* Supervisor (supervise.py); a worker process is a slot of Workers

\* more than STALE_SECONDS pass without a heartbeat write
HbStale ==
    /\ hb = "fresh"
    /\ hb' = "stale"
    /\ UNCHANGED <<pidf, beat, storeVars, workerVars, uiVars, cancelVars, supVars, histVars, extraVars>>

\* worker process w is running (proc.poll() is None)
Alive(w) == pc[w] \notin {"off", "done"}

\* start_worker() has spawned process w and run_worker_loop has written its
\* PID file and opened the recovery scan; process k, if any, has been killed
Respawn(k, w) ==
    /\ pc' = [x \in Workers |-> IF x = w THEN "recover" ELSE IF x = k THEN "off" ELSE pc[x]]
    /\ todo' = [x \in Workers |-> IF x = w THEN LiveJobs ELSE IF x = k THEN {} ELSE todo[x]]
    /\ wjob' = [x \in Workers |-> IF x = k THEN 0 ELSE wjob[x]]
    /\ wcopy' = [x \in Workers |-> IF x = k THEN NewJob ELSE wcopy[x]]
    /\ wres' = [x \in Workers |-> IF x = k THEN "none" ELSE wres[x]]
    /\ beat' = [x \in Workers |-> IF x \in {k, w} THEN FALSE ELSE beat[x]]
    /\ pidf' = TRUE
    /\ sproc' = w

\* supervise_loop begins: proc = start_worker()
SupStart ==
    /\ spc = "off"
    /\ \E w \in Workers : ~Alive(w) /\ Respawn(0, w)
    /\ spc' = "check"
    /\ UNCHANGED <<hb, sstale, storeVars, uiVars, cancelVars, histVars, extraVars>>

\* read_hb() and the staleness test: absent, unparseable or old is stale
SupRead ==
    /\ spc = "check"
    /\ sstale' = (hb # "fresh")
    /\ spc' = "act"
    /\ UNCHANGED <<sproc, fileVars, storeVars, workerVars, uiVars, cancelVars, histVars, extraVars>>

\* as SupAct, but a stale heartbeat starts a worker without killing the old one
SupActNoKill ==
    /\ spc = "act"
    /\ IF ~Alive(sproc) \/ sstale
       THEN \E w \in Workers \ {sproc} : ~Alive(w) /\ Respawn(0, w)
       ELSE UNCHANGED <<workerVars, beat, pidf, sproc>>
    /\ spc' = "check"
    /\ UNCHANGED <<hb, sstale, storeVars, uiVars, cancelVars, histVars, extraVars>>

\* proc.poll(), the restart branches, sleep(CHECK_INTERVAL)
SupAct ==
    /\ spc = "act"
    /\ IF ~Alive(sproc)
       THEN \E w \in Workers \ {sproc} : ~Alive(w) /\ Respawn(0, w)
       ELSE IF sstale
            THEN \E w \in Workers \ {sproc} : ~Alive(w) /\ Respawn(sproc, w)
            ELSE UNCHANGED <<workerVars, beat, pidf, sproc>>
    /\ spc' = "check"
    /\ UNCHANGED <<hb, sstale, storeVars, uiVars, cancelVars, histVars, extraVars>>

\* ---------------------------------------------------------------------------
\* progress_history, entry by entry (entries are numbered in the order sent)

\* as HookAppend, but the slice keeps the head of the list
HookAppendKeepFirst(h, e) ==
    LET a == Append(h, e)
    IN IF Len(a) > HISTORY_LIMIT THEN SubSeq(a, 1, HISTORY_LIMIT) ELSE a

\* progress_hook's append, then `[-100:]` when the list has grown past 100
HookAppend(h, e) ==
    LET a == Append(h, e)
    IN IF Len(a) > HISTORY_LIMIT
       THEN SubSeq(a, Len(a) - HISTORY_LIMIT + 1, Len(a))
       ELSE a

\* one progress update through the worker's hook (the loop body of
\* test_progress_history_written_and_truncated): load, append, truncate, save
HookUpdate ==
    /\ nupd < MaxUpdates
    /\ ph' = HookAppend(ph, nupd + 1)
    /\ nupd' = nupd + 1
    /\ UNCHANGED <<storeVars, workerVars, uiVars, cancelVars, fileVars, supVars, extraVars>>

\* one update_job(job_id, progress=...): load, append, save
UpdateJobProgress ==
    /\ nupd < MaxUpdates
    /\ ph' = Append(ph, nupd + 1)
    /\ nupd' = nupd + 1
    /\ UNCHANGED <<storeVars, workerVars, uiVars, cancelVars, fileVars, supVars, extraVars>>

\* ---------------------------------------------------------------------------
\* Retention (job_worker.py _cleanup_jobs and the per-cycle retention pass),
\* as functions of the jobs directory.  A job is [id, status, age]: ids are
\* given in the order of created_at (larger is newer), age is the number of
\* hours since created_at, status "unreadable" is a directory whose job.json
\* is missing or does not parse.

\* one age per retention class: recent, past the 48 hours, past the 7 days
AgeOf(i, a, b) ==
    IF i <= a THEN MAX_JOB_AGE_DAYS * 24 + 1
    ELSE IF i <= a + b THEN RETENTION_HOURS + 1
    ELSE 0

\* what a directory can hold besides a finished job
SpecialStatus == {"QUEUED", "RUNNING", "CANCELLED", "unreadable"}

\* n jobs, the a oldest past the 7 days, the next b past the 48 hours, job s
\* (if any) in status q, the others COMPLETED and FAILED in turn
Population(n, a, b, s, q) ==
    {[id |-> i,
      status |-> IF i = s THEN q ELSE IF i % 2 = 1 THEN "COMPLETED" ELSE "FAILED",
      age |-> AgeOf(i, a, b)] : i \in 1..n}

Populations ==
    UNION {UNION {{Population(n, a, b, s, q) :
                      b \in {x \in 0..1 : a + x <= n},
                      s \in {0} \cup ({1, n} \cap (1..n)),
                      q \in SpecialStatus} : a \in 0..n} : n \in 0..MaxPop}

SweepInit ==
    /\ QueueInit
    /\ pop \in Populations
    /\ was = pop
    /\ last = "none"
    /\ ListIdle
    /\ DiskIdle
    /\ ApiIdle
    /\ LaterIdle

\* as SweepTerminal, but CANCELLED counts as finished too
SweepTerminalWithCancelled(P) ==
    {r \in P : r.status \in {"COMPLETED", "FAILED", "CANCELLED"}}

\* the jobs _cleanup_jobs collects: status in ("COMPLETED", "FAILED")
SweepTerminal(P) == {r \in P : r.status \in {"COMPLETED", "FAILED"}}

\* created < cutoff, the cutoff max_age_days back
TooOld(r) == r.age > MAX_JOB_AGE_DAYS * 24

\* as Newest, but the slice starts one entry late
NewestOffByOne(S, n) == {r \in S : Cardinality({x \in S : x.id > r.id}) <= n}

\* sorted newest first by created_at, then the first n entries
Newest(S, n) == {r \in S : Cardinality({x \in S : x.id > r.id}) < n}

\* _cleanup_jobs: load_job of every directory (an exception ends the sweep in
\* the outer except), delete by age, list again, keep the newest max_jobs
cleanup_jobs(P) ==
    IF \E r \in P : r.status = "unreadable"
    THEN P
    ELSE LET aged_out == {r \in SweepTerminal(P) : TooOld(r)}
             rest == P \ aged_out
             kept == Newest(SweepTerminal(rest), MAX_COMPLETED_JOBS)
         IN rest \ (SweepTerminal(rest) \ kept)

\* the per-cycle retention pass: a directory whose load_job fails is skipped,
\* COMPLETED, FAILED and CANCELLED jobs created before the cutoff are deleted
retention_pass(P) ==
    P \ {r \in P : r.status \in Terminal /\ r.age > RETENTION_HOURS}

\* one run of _cleanup_jobs
Sweep ==
    /\ pop' = cleanup_jobs(pop)
    /\ was' = pop
    /\ last' = "sweep"
    /\ UNCHANGED <<storeVars, workerVars, uiVars, cancelVars, fileVars, supVars, histVars, runVars, tickVars, listVars, diskVars, apiVars, laterVars>>

\* one run of the per-cycle retention pass
Pass ==
    /\ pop' = retention_pass(pop)
    /\ was' = pop
    /\ last' = "pass"
    /\ UNCHANGED <<storeVars, workerVars, uiVars, cancelVars, fileVars, supVars, histVars, runVars, tickVars, listVars, diskVars, apiVars, laterVars>>

\* ---------------------------------------------------------------------------
\* list_jobs (job_manager.py) and the directory times it sorts by

\* create_job: mkdir of the job directory, created_at = now, job.json written
ListCreate(d) ==
    /\ ctime[d] = 0
    /\ clock < MaxClock
    /\ clock' = clock + 1
    /\ ctime' = [ctime EXCEPT ![d] = clock + 1]
    /\ mtime' = [mtime EXCEPT ![d] = clock + 1]
    /\ UNCHANGED <<listed, storeVars, workerVars, uiVars, cancelVars, fileVars, supVars, histVars, runVars, tickVars, sweepVars, diskVars, apiVars, laterVars>>

\* an entry of the job directory is made, renamed or removed: save_job's
\* job.json.tmp and os.replace, the .lock marker, the input and output folders
ListTouch(d) ==
    /\ ctime[d] # 0
    /\ clock < MaxClock
    /\ clock' = clock + 1
    /\ mtime' = [mtime EXCEPT ![d] = clock + 1]
    /\ UNCHANGED <<ctime, listed, storeVars, workerVars, uiVars, cancelVars, fileVars, supVars, histVars, runVars, tickVars, sweepVars, diskVars, apiVars, laterVars>>

\* sorted(JOBS_ROOT.iterdir(), key=st_mtime, reverse=True)
SortedByMtime(S) ==
    CHOOSE q \in [1..Cardinality(S) -> S] :
        \A i, k \in 1..Cardinality(S) : i < k => mtime[q[i]] > mtime[q[k]]

\* list_jobs()
ListJobs ==
    /\ listed' = SortedByMtime({d \in ListIds : ctime[d] # 0})
    /\ UNCHANGED <<ctime, mtime, clock, storeVars, workerVars, uiVars, cancelVars, fileVars, supVars, histVars, runVars, tickVars, sweepVars, diskVars, apiVars, laterVars>>

\* ---------------------------------------------------------------------------
\* The file operations of create_job and save_job (job_manager.py) on one job

\* handles after os.replace(tmp, jf): the file that was job.json is unlinked,
\* the file that was job.json.tmp is now job.json
Renamed(h) == IF h = "jf" THEN "gone" ELSE IF h = "tmp" THEN "jf" ELSE h

\* tmp.write_text, first half: open(tmp, "w") creates or truncates the file.
\* The first writer of a job is create_job, alone until job.json exists.
OpenTmp(u) ==
    /\ fpos[u] = "idle"
    /\ jf # "absent" \/ \A v \in Writers : fpos[v] = "idle"
    /\ tmp' = "empty"
    /\ fat' = [fat EXCEPT ![u] = "tmp"]
    /\ fpos' = [fpos EXCEPT ![u] = "write"]
    /\ UNCHANGED <<jf, how, seen, queueVars, sweepVars, listVars, apiVars, laterVars>>

\* write and close, on the file the handle was opened on, wherever it is now
WriteOut(u, next) ==
    /\ jf' = IF fat[u] = "jf" THEN "full" ELSE jf
    /\ tmp' = IF fat[u] = "tmp" THEN "full" ELSE tmp
    /\ fat' = [fat EXCEPT ![u] = "none"]
    /\ fpos' = [fpos EXCEPT ![u] = next]
    /\ how' = IF next = "idle" THEN [how EXCEPT ![u] = "fallback"] ELSE how
    /\ UNCHANGED <<seen, queueVars, sweepVars, listVars, apiVars, laterVars>>

\* tmp.write_text, second half
WriteTmp(u) ==
    /\ fpos[u] = "write"
    /\ WriteOut(u, "replace")

\* os.replace(tmp, jf)
Replace(u) ==
    /\ fpos[u] = "replace"
    /\ tmp # "absent"
    /\ jf' = tmp
    /\ tmp' = "absent"
    /\ fat' = [v \in Writers |-> Renamed(fat[v])]
    /\ fpos' = [fpos EXCEPT ![u] = "idle"]
    /\ how' = [how EXCEPT ![u] = "replace"]
    /\ UNCHANGED <<seen, queueVars, sweepVars, listVars, apiVars, laterVars>>

\* os.replace raises (job.json.tmp is no longer there); the except branch
\* opens job.json itself for writing
FallbackOpen(u) ==
    /\ fpos[u] = "replace"
    /\ tmp = "absent"
    /\ jf' = "empty"
    /\ fat' = [fat EXCEPT ![u] = "jf"]
    /\ fpos' = [fpos EXCEPT ![u] = "fallback"]
    /\ UNCHANGED <<tmp, how, seen, queueVars, sweepVars, listVars, apiVars, laterVars>>

\* jf.write_text, second half
FallbackWrite(u) ==
    /\ fpos[u] = "fallback"
    /\ WriteOut(u, "idle")

\* the writing process dies between two file operations
WriterCrash(u) ==
    /\ fpos[u] # "idle"
    /\ fpos' = [fpos EXCEPT ![u] = "idle"]
    /\ fat' = [fat EXCEPT ![u] = "none"]
    /\ UNCHANGED <<jf, tmp, how, seen, queueVars, sweepVars, listVars, apiVars, laterVars>>

\* load_job / list_jobs: jf.exists(), then json.loads(jf.read_text())
ReadJob ==
    /\ jf # "absent"
    /\ seen' = jf
    /\ UNCHANGED <<jf, tmp, fpos, fat, how, queueVars, sweepVars, listVars, apiVars, laterVars>>

\* ---------------------------------------------------------------------------
\* create_job and load_job (job_manager.py) as the Run tab calls them (app.py)

\* a submission with any inputs, the store writable or not
ApiInit ==
    /\ QueueInit
    /\ SweepIdle
    /\ ListIdle
    /\ DiskIdle
    /\ disk = {}
    /\ writable \in BOOLEAN
    /\ cargs \in Inputs
    /\ cret = NoOutcome
    /\ shown = "none"
    /\ lid = 0
    /\ lres = [raised |-> "none", value |-> <<>>]
    /\ LaterIdle

\* json.dumps of a value
dumps(v) ==
    CASE v = "True" -> "true"
      [] v = "False" -> "false"
      [] v = "None" -> "null"
      [] v = "'card.fasta'" -> "\"card.fasta\""
      [] v = "'RUNNING'" -> "\"RUNNING\""
      [] v = "'unknown'" -> "\"unknown\""
      [] OTHER -> v

\* json.loads of a token
loads(t) ==
    CASE t = "true" -> "True"
      [] t = "false" -> "False"
      [] t = "null" -> "None"
      [] t = "\"card.fasta\"" -> "'card.fasta'"
      [] t = "\"RUNNING\"" -> "'RUNNING'"
      [] t = "\"unknown\"" -> "'unknown'"
      [] OTHER -> t

\* bool(v)
Truthy(v) == v \notin {"False", "None", "0", "0.0", "''"}

\* parameters.get("mock_mode", False)
GetMockMode(params) ==
    IF "mock_mode" \in DOMAIN params THEN params["mock_mode"] ELSE "False"

\* as meta, but a job that starts with one attempt used
metaOneAttempt(job_id, uploaded_files, parameters) ==
    [id |-> job_id,
     status |-> "QUEUED",
     attempts |-> 1,
     progress_history |-> <<>>,
     last_error |-> "None",
     mock_mode |-> IF Truthy(GetMockMode(parameters)) THEN "True" ELSE "False",
     params |-> parameters,
     input_files |-> uploaded_files,
     output_files |-> <<>>,
     worker_notes |-> "",
     message |-> ""]

\* the dict create_job builds (created_at and updated_at left out)
meta(job_id, uploaded_files, parameters) ==
    [id |-> job_id,
     status |-> "QUEUED",
     attempts |-> 0,
     progress_history |-> <<>>,
     last_error |-> "None",
     mock_mode |-> IF Truthy(GetMockMode(parameters)) THEN "True" ELSE "False",
     params |-> parameters,
     input_files |-> uploaded_files,
     output_files |-> <<>>,
     worker_notes |-> "",
     message |-> ""]

\* json.dumps(meta): the scalar values become JSON tokens
dumps_job(m) ==
    [m EXCEPT !.last_error = dumps(m.last_error),
              !.mock_mode = dumps(m.mock_mode),
              !.params = [k \in DOMAIN m.params |-> dumps(m.params[k])]]

\* json.loads of a job.json
loads_job(f) ==
    [f EXCEPT !.last_error = loads(f.last_error),
              !.mock_mode = loads(f.mock_mode),
              !.params = [k \in DOMAIN f.params |-> loads(f.params[k])]]

\* the job ids that have a job.json in the store D
StoredIds(D) == {f.id : f \in D}

\* as load_job, but a missing job gives an empty result instead of an error
load_job_or_nothing(D, job_id) ==
    IF job_id \notin StoredIds(D)
    THEN [raised |-> "none", value |-> <<>>]
    ELSE [raised |-> "none",
          value |-> <<loads_job(CHOOSE f \in D : f.id = job_id)>>]

\* load_job on the store D
load_job(D, job_id) ==
    IF job_id \notin StoredIds(D)
    THEN [raised |-> "FileNotFoundError", value |-> <<>>]
    ELSE [raised |-> "none",
          value |-> <<loads_job(CHOOSE f \in D : f.id = job_id)>>]

\* app.py, the Run tab with "Submit as background job": create_job, then
\* st.success. uuid4 gives an id no stored job has. When mkdir or the write
\* raises, create_job returns its failure dict.
Submit ==
    /\ \E job_id \in ApiIds \ StoredIds(disk) :
          IF writable
          THEN /\ disk' = disk \cup {dumps_job(meta(job_id, cargs.files, cargs.params))}
               /\ cret' = [kind |-> "str", id |-> job_id]
          ELSE /\ disk' = disk
               /\ cret' = [kind |-> "dict", id |-> 0]
    /\ shown' = "Job submitted"
    /\ UNCHANGED <<writable, cargs, lid, lres, queueVars, sweepVars, listVars, diskVars, laterVars>>

\* a call of load_job
LoadJob(job_id) ==
    /\ lid' = job_id
    /\ lres' = load_job(disk, job_id)
    /\ UNCHANGED <<disk, writable, cargs, cret, shown, queueVars, sweepVars, listVars, diskVars, laterVars>>

\* ---------------------------------------------------------------------------
\* The heartbeat document (job_worker.py) and the health server
\* (health_server.py)

\* the worker claims job j for its a-th attempt and calls the pipeline
BeatClaim(j, a) ==
    /\ hpos = "poll"
    /\ hjob' = [id |-> Lit(j), attempts |-> Lit(a)]
    /\ hpos' = "run"
    /\ UNCHANGED <<hlast, hfile, hpath, resp, notBeat>>

\* progress_hook(p): last_job_id = job.get("id"), last_job_attempts = attempts
BeatHook ==
    /\ hpos = "run"
    /\ hlast' = hjob
    /\ UNCHANGED <<hpos, hjob, hfile, hpath, resp, notBeat>>

\* the pipeline call returns or raises, the outcome is saved, the lock removed
BeatEnd ==
    /\ hpos = "run"
    /\ hpos' = "beat"
    /\ UNCHANGED <<hjob, hlast, hfile, hpath, resp, notBeat>>

\* json.dumps(hb) of the dict built from the worker's locals l (ts, pid, uptime
\* and last_error left out)
HeartbeatDoc(l) ==
    [status |-> dumps("'RUNNING'"),
     last_job_id |-> dumps(l.id),
     last_job_attempts |-> dumps(l.attempts)]

\* _atomic_write(HEARTBEAT_FILE, ...), os.replace succeeds
BeatWrite ==
    /\ hpos = "beat"
    /\ hfile' = [state |-> "whole", doc |-> HeartbeatDoc(hlast)]
    /\ hpos' = "poll"
    /\ UNCHANGED <<hjob, hlast, hpath, resp, notBeat>>

\* _atomic_write, os.replace raises: path.write_text opens the file in place
BeatFallback ==
    /\ hpos = "beat"
    /\ hfile' = [state |-> "partial", doc |-> NoDoc]
    /\ hpos' = "beat_fb"
    /\ UNCHANGED <<hjob, hlast, hpath, resp, notBeat>>

\* the fallback write_text completes
BeatFlush ==
    /\ hpos = "beat_fb"
    /\ hfile' = [state |-> "whole", doc |-> HeartbeatDoc(hlast)]
    /\ hpos' = "poll"
    /\ UNCHANGED <<hjob, hlast, hpath, resp, notBeat>>

\* the loop is left between two passes: the outer finally unlinks the file
BeatExit ==
    /\ hpos = "poll"
    /\ hfile' = [state |-> "absent", doc |-> NoDoc]
    /\ hpos' = "off"
    /\ UNCHANGED <<hjob, hlast, hpath, resp, notBeat>>

\* run_worker_loop is called again: last_job_id = None, last_job_attempts = 0
BeatStart ==
    /\ hpos = "off"
    /\ hpos' = "poll"
    /\ hjob' = NoLastJob
    /\ hlast' = NoLastJob
    /\ UNCHANGED <<hfile, hpath, resp, notBeat>>

\* the paths a client asks for
Paths == {"/health", "/health/", "/"}

\* the fallback dict of do_GET, as sent
FallbackDoc ==
    [status |-> dumps("'unknown'"), last_job_id |-> dumps("None"), ts |-> dumps("None")]

\* json.dumps(json.loads(txt)) of a heartbeat document
Reencode(doc) == [k \in DOMAIN doc |-> dumps(loads(doc[k]))]

\* as do_GET, but the fallback document is sent with status 200
do_GET_always_ok(path, f) ==
    IF path \notin {"/health", "/health/"}
    THEN [status |-> 404, body |-> NoDoc]
    ELSE IF f.state = "whole"
         THEN [status |-> 200, body |-> Reencode(f.doc)]
         ELSE [status |-> 200, body |-> FallbackDoc]

\* HealthHandler.do_GET with heartbeat file f
do_GET(path, f) ==
    IF path \notin {"/health", "/health/"}
    THEN [status |-> 404, body |-> NoDoc]
    ELSE IF f.state = "whole"
         THEN [status |-> 200, body |-> Reencode(f.doc)]
         ELSE [status |-> 503, body |-> FallbackDoc]

\* a GET is answered
Get(path) ==
    /\ hpath' = path
    /\ resp' = do_GET(path, hfile)
    /\ UNCHANGED <<hpos, hjob, hlast, hfile, notBeat>>

\* ---------------------------------------------------------------------------
\* The artifact block that follows a returned pipeline call (job_worker.py)

\* worker_notes a job can carry from an earlier attempt, note by note
EarlierNotes == {<<>>, <<"Retrying after error">>}

\* the file operations of the block that can raise
FailPoints == {"none", "mkdir", "csv", "plots"}

\* a pipeline call has returned for a job in any attempt, with any artifacts,
\* and any one of the file operations is going to raise
ArtInit ==
    /\ QueueInit
    /\ SweepIdle
    /\ ListIdle
    /\ DiskIdle
    /\ ApiIdle
    /\ BeatIdle
    /\ \E a \in 1..MAX_ATTEMPTS, notes \in EarlierNotes :
          ajob = RunningJob(a, notes) /\ asaved = RunningJob(a, notes)
    /\ ares \in [csv : BOOLEAN, plots : BOOLEAN]
    /\ afail \in FailPoints
    /\ adone = FALSE

\* results.csv is written: csv_bytes is there and neither mkdir nor the write
\* raises
CsvWritten(res, fail) == res.csv /\ fail \notin {"mkdir", "csv"}

\* the try block is left by an exception
ArtifactsRaise(res, fail) ==
    \/ fail = "mkdir"
    \/ fail = "csv" /\ res.csv
    \/ fail = "plots" /\ res.plots

\* plots.zip is written: plots_zip is there and nothing has raised
PlotsWritten(res, fail) == res.plots /\ ~ArtifactsRaise(res, fail)

\* list(results.values())
ResultFiles(res, fail) ==
    (IF CsvWritten(res, fail) THEN <<"results.csv">> ELSE <<>>)
      \o (IF PlotsWritten(res, fail) THEN <<"plots.zip">> ELSE <<>>)

\* as Completed, but an artifact failure is handled like a pipeline failure
CompletedOrRetried(job, res, fail) ==
    IF ArtifactsRaise(res, fail)
    THEN [job EXCEPT !.status = IF job.attempts < MAX_ATTEMPTS THEN "QUEUED" ELSE "FAILED",
                     !.message = "exc"]
    ELSE [job EXCEPT !.status = "COMPLETED",
                     !.message = "Run completed",
                     !.output_files = ResultFiles(res, fail)]

\* the `job` dict after the successful-run branch
Completed(job, res, fail) ==
    [job EXCEPT !.status = "COMPLETED",
                !.message = "Run completed",
                !.worker_notes = IF ArtifactsRaise(res, fail)
                                 THEN Append(@, "Artifact save error") ELSE @,
                !.output_files = ResultFiles(res, fail)]

\* the successful-run branch and its save_job
CompletePass ==
    /\ ~adone
    /\ asaved' = Completed(ajob, ares, afail)
    /\ adone' = TRUE
    /\ UNCHANGED <<ajob, ares, afail, notArt>>

\* ---------------------------------------------------------------------------
\* Specifications

\* the end of a pass whose pipeline call returned
NextArt == CompletePass

SpecArt == ArtInit /\ [][NextArt]_vars

\* a worker that processes jobs and writes its heartbeat, and the health
\* server's clients
NextBeat ==
    \/ \E j \in BeatIds, a \in 1..MAX_ATTEMPTS : BeatClaim(j, a)
    \/ BeatHook
    \/ BeatEnd
    \/ BeatWrite
    \/ BeatFallback
    \/ BeatFlush
    \/ BeatExit
    \/ BeatStart
    \/ \E path \in Paths : Get(path)

SpecBeat == Init /\ [][NextBeat]_vars

\* submissions and loads
NextApi ==
    \/ Submit
    \/ \E job_id \in ApiIds : LoadJob(job_id)

SpecApi == ApiInit /\ [][NextApi]_vars

\* writers and a reader of one job's record
NextFile ==
    \/ \E u \in Writers : OpenTmp(u)
    \/ \E u \in Writers : WriteTmp(u)
    \/ \E u \in Writers : Replace(u)
    \/ \E u \in Writers : FallbackOpen(u)
    \/ \E u \in Writers : FallbackWrite(u)
    \/ \E u \in Writers : WriterCrash(u)
    \/ ReadJob

SpecFile == Init /\ [][NextFile]_vars

\* jobs are created, written to and listed
NextList ==
    \/ \E d \in ListIds : ListCreate(d)
    \/ \E d \in ListIds : ListTouch(d)
    \/ ListJobs

SpecList == Init /\ [][NextList]_vars

\* the retention steps applied to a jobs directory
NextSweep ==
    \/ Sweep
    \/ Pass

SpecSweep == SweepInit /\ [][NextSweep]_vars

\* the supervisor and the worker processes it starts
NextSup ==
    \/ \E j \in Jobs : CreateJob(j)
    \/ \E w \in Workers : RecoverLoad(w)
    \/ \E w \in Workers : RecoverSave(w)
    \/ \E w \in Workers : RecoverDone(w)
    \/ \E w \in Workers : PollLoad(w)
    \/ \E w \in Workers : CheckLock(w)
    \/ \E w \in Workers : WriteLock(w)
    \/ \E w \in Workers : Bump(w)
    \/ \E w \in Workers : Finish(w)
    \/ \E w \in Workers : Unlock(w)
    \/ \E w \in Workers : Heartbeat(w)
    \/ \E w \in Workers : HeartbeatFallback(w)
    \/ \E w \in Workers : HeartbeatFlush(w)
    \/ \E w \in Workers : EndCycle(w)
    \/ \E w \in Workers : Kill(w)
    \/ HbStale
    \/ SupStart
    \/ SupRead
    \/ SupAct

SpecSup == Init /\ [][NextSup]_vars

\* a pipeline call that takes longer than STALE_SECONDS: when it ends, a
\* heartbeat written before it began is older than the threshold
LongFinish(w) ==
    /\ hb # "fresh"
    /\ Finish(w)

\* the steps of a worker process the supervisor has started, every pipeline
\* call a long one
LongStep(w) ==
    \/ RecoverLoad(w)
    \/ RecoverSave(w)
    \/ RecoverDone(w)
    \/ PollLoad(w)
    \/ CheckLock(w)
    \/ WriteLock(w)
    \/ Bump(w)
    \/ LongFinish(w)
    \/ Unlock(w)
    \/ Heartbeat(w)
    \/ EndCycle(w)

\* worker w is in a pipeline call or in time.sleep(poll_interval): the places
\* where a worker spends its time
AtRest(w) == pc[w] = "run" \/ (pc[w] = "poll" /\ todo[w] = {})

\* a supervisor check that falls while the worker it started is in a pipeline
\* call or asleep between two poll cycles
SupReadAtRest ==
    /\ SupRead
    /\ Alive(sproc) => AtRest(sproc)

\* the supervisor's steps
SupStep ==
    \/ SupStart
    \/ SupReadAtRest
    \/ SupAct

\* the supervisor and the workers it starts, with pipeline calls that outlast
\* the staleness threshold
NextLong ==
    \/ \E j \in Jobs : CreateJob(j)
    \/ \E w \in Workers : LongStep(w)
    \/ HbStale
    \/ SupStep

\* supervisor, worker and clock all keep running: the supervisor loops with
\* sleep(CHECK_INTERVAL), the worker with sleep(poll_interval), and every
\* pipeline call returns or raises
SpecLong ==
    /\ Init /\ [][NextLong]_vars
    /\ \A w \in Workers : WF_vars(LongStep(w))
    /\ WF_vars(SupStep)
    /\ WF_vars(HbStale)

\* a job whose progress updates all come through the worker's hook
NextHook == HookUpdate

SpecHook == Init /\ [][NextHook]_vars

\* a job whose progress updates come through the worker's hook and through
\* update_job (UI thread, cancel button)
NextHist ==
    \/ HookUpdate
    \/ UpdateJobProgress

SpecHist == Init /\ [][NextHist]_vars

\* the worker loop the queue is designed for: the first one started
Solo == {1}

\* one worker loop (restarted when killed) while time passes
NextTick ==
    \/ \E j \in Jobs : CreateJob(j)
    \/ \E j \in Jobs : Age(j)
    \/ \E j \in Jobs : Old(j)
    \/ \E w \in Solo : CleanupDue(w)
    \/ \E w \in Solo : StartWorker(w)
    \/ \E w \in Solo : RecoverLoad(w)
    \/ \E w \in Solo : RecoverSave(w)
    \/ \E w \in Solo : RecoverDone(w)
    \/ \E w \in Solo : PollLoad(w)
    \/ \E w \in Solo : CheckLock(w)
    \/ \E w \in Solo : WriteLock(w)
    \/ \E w \in Solo : Bump(w)
    \/ \E w \in Solo : Finish(w)
    \/ \E w \in Solo : Unlock(w)
    \/ \E w \in Solo : Heartbeat(w)
    \/ \E w \in Solo : EndCycle(w)
    \/ \E w \in Solo : Kill(w)

SpecTick == Init /\ [][NextTick]_vars

\* the queue core: one worker loop (restarted when killed) polling jobs that
\* create_job made
Next ==
    \/ \E j \in Jobs : CreateJob(j)
    \/ \E j \in Jobs : Age(j)
    \/ \E w \in Solo : StartWorker(w)
    \/ \E w \in Solo : RecoverLoad(w)
    \/ \E w \in Solo : RecoverSave(w)
    \/ \E w \in Solo : RecoverDone(w)
    \/ \E w \in Solo : PollLoad(w)
    \/ \E w \in Solo : CheckLock(w)
    \/ \E w \in Solo : WriteLock(w)
    \/ \E w \in Solo : Bump(w)
    \/ \E w \in Solo : progress_hook(w)
    \/ \E w \in Solo : Finish(w)
    \/ \E w \in Solo : Unlock(w)
    \/ \E w \in Solo : Heartbeat(w)
    \/ \E w \in Solo : HeartbeatFallback(w)
    \/ \E w \in Solo : HeartbeatFlush(w)
    \/ \E w \in Solo : EndCycle(w)
    \/ \E w \in Solo : Kill(w)

Spec == Init /\ [][Next]_vars

\* one worker process that can be killed or leave its loop by an exception or
\* interrupt, and is started again
NextExit ==
    \/ \E j \in Jobs : CreateJob(j)
    \/ \E w \in Solo : StartWorker(w)
    \/ \E w \in Solo : RecoverLoad(w)
    \/ \E w \in Solo : RecoverSave(w)
    \/ \E w \in Solo : RecoverDone(w)
    \/ \E w \in Solo : PollLoad(w)
    \/ \E w \in Solo : CheckLock(w)
    \/ \E w \in Solo : WriteLock(w)
    \/ \E w \in Solo : Bump(w)
    \/ \E w \in Solo : Finish(w)
    \/ \E w \in Solo : Unlock(w)
    \/ \E w \in Solo : Heartbeat(w)
    \/ \E w \in Solo : HeartbeatFallback(w)
    \/ \E w \in Solo : HeartbeatFlush(w)
    \/ \E w \in Solo : EndCycle(w)
    \/ \E w \in Solo : Kill(w)
    \/ \E w \in Solo : Interrupt(w)
    \/ \E w \in Solo : ExitPid(w)
    \/ \E w \in Solo : ExitHb(w)

SpecExit == Init /\ [][NextExit]_vars

\* the steps of one run_worker_loop thread, from its start on, that finds no
\* job to recover
LoopStep(w) ==
    \/ StartWorker(w)
    \/ RecoverLoad(w)
    \/ RecoverDone(w)
    \/ PollLoad(w)
    \/ CheckLock(w)
    \/ WriteLock(w)
    \/ Bump(w)
    \/ progress_hook(w)
    \/ Finish(w)
    \/ Unlock(w)
    \/ Heartbeat(w)
    \/ HeartbeatFallback(w)
    \/ HeartbeatFlush(w)
    \/ EndCycle(w)

\* the steps of one run_worker_loop thread, from its start on
WorkerNext(w) ==
    \/ LoopStep(w)
    \/ RecoverSave(w)

\* one worker loop that is never killed or interrupted and keeps being
\* scheduled; every pipeline call returns or raises
NextPoll ==
    \/ \E j \in Jobs : CreateJob(j)
    \/ \E j \in Jobs : Age(j)
    \/ \E w \in Solo : LoopStep(w)

SpecPoll == Init /\ [][NextPoll]_vars /\ \A w \in Solo : WF_vars(LoopStep(w))

\* as SpecPoll, with a worker that can die in a pipeline call and is started
\* again
NextCrash ==
    \/ \E j \in Jobs : CreateJob(j)
    \/ \E j \in Jobs : Age(j)
    \/ \E w \in Solo : WorkerNext(w)
    \/ \E w \in Solo : Crash(w)

SpecCrash == Init /\ [][NextCrash]_vars /\ \A w \in Solo : WF_vars(WorkerNext(w))

\* the queue core and the Job Queue tab's cancel button
NextCancel ==
    \/ \E j \in Jobs : CreateJob(j)
    \/ \E j \in Jobs : Age(j)
    \/ \E w \in Solo : StartWorker(w)
    \/ \E w \in Solo : RecoverLoad(w)
    \/ \E w \in Solo : RecoverSave(w)
    \/ \E w \in Solo : RecoverDone(w)
    \/ \E w \in Solo : PollLoad(w)
    \/ \E w \in Solo : CheckLock(w)
    \/ \E w \in Solo : WriteLock(w)
    \/ \E w \in Solo : Bump(w)
    \/ \E w \in Solo : progress_hook(w)
    \/ \E w \in Solo : Finish(w)
    \/ \E w \in Solo : Unlock(w)
    \/ \E w \in Solo : Heartbeat(w)
    \/ \E w \in Solo : HeartbeatFallback(w)
    \/ \E w \in Solo : HeartbeatFlush(w)
    \/ \E w \in Solo : EndCycle(w)
    \/ \E w \in Solo : Kill(w)
    \/ \E j \in Jobs : CancelClick(j)
    \/ CancelLoad
    \/ CancelSave

SpecCancel == Init /\ [][NextCancel]_vars

\* several worker loops at once (one per Streamlit session, plus the supervisor's)
NextWorkers ==
    \/ \E j \in Jobs : CreateJob(j)
    \/ \E j \in Jobs : Age(j)
    \/ \E w \in Workers : StartWorker(w)
    \/ \E w \in Workers : RecoverLoad(w)
    \/ \E w \in Workers : RecoverSave(w)
    \/ \E w \in Workers : RecoverDone(w)
    \/ \E w \in Workers : PollLoad(w)
    \/ \E w \in Workers : CheckLock(w)
    \/ \E w \in Workers : WriteLock(w)
    \/ \E w \in Workers : Bump(w)
    \/ \E w \in Workers : progress_hook(w)
    \/ \E w \in Workers : Finish(w)
    \/ \E w \in Workers : Unlock(w)
    \/ \E w \in Workers : Heartbeat(w)
    \/ \E w \in Workers : HeartbeatFallback(w)
    \/ \E w \in Workers : HeartbeatFlush(w)
    \/ \E w \in Workers : EndCycle(w)
    \/ \E w \in Workers : Kill(w)

SpecWorkers == Init /\ [][NextWorkers]_vars

\* the application as app.py runs it for one session: the bootstrap worker
\* loop and the submit threads
NextApp ==
    \/ \E j \in Jobs : SubmitJob(j)
    \/ \E j \in Jobs : Age(j)
    \/ \E w \in Solo : StartWorker(w)
    \/ \E w \in Solo : RecoverLoad(w)
    \/ \E w \in Solo : RecoverSave(w)
    \/ \E w \in Solo : RecoverDone(w)
    \/ \E w \in Solo : PollLoad(w)
    \/ \E w \in Solo : CheckLock(w)
    \/ \E w \in Solo : WriteLock(w)
    \/ \E w \in Solo : Bump(w)
    \/ \E w \in Solo : progress_hook(w)
    \/ \E w \in Solo : Finish(w)
    \/ \E w \in Solo : Unlock(w)
    \/ \E w \in Solo : Heartbeat(w)
    \/ \E w \in Solo : HeartbeatFallback(w)
    \/ \E w \in Solo : HeartbeatFlush(w)
    \/ \E w \in Solo : EndCycle(w)
    \/ \E j \in Jobs : UiLoad(j)
    \/ \E j \in Jobs : UiSave(j)
    \/ \E j \in Jobs : UiProgress(j)
    \/ \E j \in Jobs : UiFinish(j)

SpecApp == Init /\ [][NextApp]_vars

\* ---------------------------------------------------------------------------
\* Properties

\* worker loops whose current pass has created job j's lock marker and has not
\* yet released it
Holders(j) == {w \in Workers : wjob[w] = j /\ pc[w] \in {"bump", "run", "unlock"}}

\* C1: for every job, at most one worker pass holds its processing claim at any
\* instant; racing claim attempts on a QUEUED job have exactly one winner.
C1_OneClaimHolder == \A j \in Jobs : Cardinality(Holders(j)) <= 1

\* C2: once a job's persisted status is COMPLETED, FAILED or CANCELLED, no
\* later write changes the status; the job can only be deleted.
C2_TerminalIsFinal ==
    [][\A j \in Jobs :
         (Live(j) /\ store[j].status \in Terminal)
            => (dir'[j] = "gone" \/ store'[j].status = store[j].status)]_vars

\* the transitions of the job state machine
Allowed ==
    {<<"QUEUED", "RUNNING">>, <<"RUNNING", "COMPLETED">>, <<"RUNNING", "FAILED">>,
     <<"RUNNING", "QUEUED">>, <<"QUEUED", "CANCELLED">>, <<"RUNNING", "CANCELLED">>}

\* C3: every change of a job's persisted status, by any component, is one of
\* the allowed transitions of the state machine.
C3_OnlyAllowedTransitions ==
    [][\A j \in Jobs :
         (Live(j) /\ Live(j)' /\ store'[j].status # store[j].status)
            => <<store[j].status, store'[j].status>> \in Allowed]_vars

\* C4: in every reachable state a job's attempts never exceeds MAX_ATTEMPTS
\* while its status is QUEUED or RUNNING.
C4_AttemptsBounded ==
    \A j \in Jobs :
        (Live(j) /\ store[j].status \in {"QUEUED", "RUNNING"})
            => store[j].attempts <= MAX_ATTEMPTS

\* worker w's pipeline call ends in this step (the outcome is in wres')
Ends(w) == pc[w] = "run" /\ pc'[w] = "unlock" /\ Live(wjob[w])

C6_RaiseThenSucceed ==
    [][\A w \in Workers :
         Ends(w) =>
            LET j == wjob[w]
            IN /\ (store[j].attempts = 1 /\ wres'[w] \in {"raise", "pipefail"})
                     => (store'[j].status = "QUEUED" /\ store'[j].attempts = 1)
               /\ (store[j].attempts = 2 /\ wres'[w] = "ok")
                     => /\ store'[j].status = "COMPLETED"
                        /\ store'[j].attempts = 2
                        /\ store'[j].output_files # <<>>]_vars

\* C7: every worker pass in which the pipeline fails, by an exception or by a
\* FAILED result of run_detection_and_collect, ends with the job QUEUED or
\* FAILED and last_error set, never COMPLETED.
C7_FailedRunNeverCompletes ==
    [][\A w \in Workers :
         (Ends(w) /\ wres'[w] \in {"raise", "pipefail"})
            => /\ store'[wjob[w]].status \in {"QUEUED", "FAILED"}
               /\ store'[wjob[w]].last_error]_vars

\* C8: a job cancelled while QUEUED stays CANCELLED and no worker runs the
\* pipeline for it, whatever the interleaving with the worker's claim steps.
C8_CancelledQueuedStays ==
    \A j \in Jobs :
        (Live(j) /\ cwhen[j] = "QUEUED")
            => /\ store[j].status = "CANCELLED"
               /\ \A w \in Workers : ~(wjob[w] = j /\ pc[w] \in {"run", "unlock"})

\* C9: after a job has been cancelled while RUNNING, no worker starts another
\* attempt for it and it is never re-queued.
C9_NoAttemptAfterCancel ==
    [][\A j \in Jobs :
         (Live(j) /\ cwhen[j] = "RUNNING")
            => /\ \A w \in Workers : ~(wjob[w] = j /\ pc[w] = "bump" /\ pc'[w] = "run")
               /\ Live(j)' => store'[j].status # "QUEUED"]_vars

\* C10: every QUEUED -> RUNNING change of the persisted status is made by a
\* worker pass that holds the job's lock marker, and adds exactly one to attempts.
C10_RunningOnlyByLockHolder ==
    [][\A j \in Jobs :
         (Live(j) /\ Live(j)' /\ store[j].status = "QUEUED" /\ store'[j].status = "RUNNING")
            => /\ lock[j]
               /\ \E w \in Workers : wjob[w] = j /\ pc[w] = "bump" /\ pc'[w] = "run"
               /\ store'[j].attempts = store[j].attempts + 1]_vars

\* C11: when a worker starts, every job persisted RUNNING whose lock marker
\* no running pass holds has been set to QUEUED by the time the recovery scan
\* hands over to the first poll iteration.
C11_RecoveredBeforeFirstPoll ==
    [][\A w \in Workers :
         (pc[w] = "recover" /\ pc'[w] = "poll")
            => \A j \in LiveJobs : store[j].status # "RUNNING"]_vars

\* a restarted worker polls, and the job its predecessor died on is QUEUED
\* again with the attempt counted and no error recorded
C11_Witness ==
    \E w \in Workers : \E j \in LiveJobs :
        /\ pc[w] = "poll"
        /\ store[j].status = "QUEUED"
        /\ store[j].attempts = 1
        /\ ~store[j].last_error

\* a lock marker exists and no worker pass in progress has created it
Orphaned(j) == Live(j) /\ lock[j] /\ Holders(j) = {}

\* C12: a job left RUNNING with its lock marker by a worker that died is,
\* once the worker runs again, eventually executed again and ends COMPLETED or
\* FAILED.
C12_OrphanEventuallyDone ==
    \A j \in Jobs :
        (Orphaned(j) /\ store[j].status = "RUNNING")
            ~> (Live(j) /\ store[j].status \in {"COMPLETED", "FAILED"})

C14_LockReleasedAfterPass ==
    /\ \A j \in Jobs : lock[j] => Holders(j) # {}
    /\ \A w \in Workers : pc[w] \in {"beat", "beat_fb"} => ~lock[wjob[w]]

\* a pass whose pipeline call raised is over and the marker is gone
C14_Witness ==
    \E w \in Workers : pc[w] = "beat" /\ wres[w] = "raise" /\ ~lock[wjob[w]]

\* C15: after N > 100 progress updates through append-then-truncate, the
\* persisted progress_history has exactly 100 entries, they are the 100 most
\* recent updates in the order sent, and the last one is the latest update.
C15_LastHundredInOrder ==
    nupd > HISTORY_LIMIT
        => /\ Len(ph) = HISTORY_LIMIT
           /\ ph[Len(ph)] = nupd
           /\ \A i \in 1..Len(ph) : ph[i] = nupd - HISTORY_LIMIT + i

\* more than 100 updates have been applied and the history is full
C15_Witness == nupd > HISTORY_LIMIT + 1 /\ Len(ph) = HISTORY_LIMIT

\* C16: whoever writes it, a persisted progress_history has at most 100 entries.
C16_HistoryAtMostLimit == Len(ph) <= HISTORY_LIMIT

\* worker w's iterdir() is exhausted and the next poll cycle begins
CycleEnds(w) == pc[w] = "poll" /\ todo[w] = {} /\ pc'[w] = "poll" /\ todo'[w] # {}

\* C17: a running worker rewrites the heartbeat in every poll cycle, idle
\* cycles included.
C17_HeartbeatEveryCycle ==
    [][\A w \in Workers : CycleEnds(w) => beat[w]]_vars

\* C18: at every supervisor check that finds the heartbeat absent, unparseable
\* or older than the threshold, or the worker process exited, the supervisor
\* leaves no earlier worker process running and has started a fresh one.
C18_StaleOrDeadRestarts ==
    [][(spc = "act" /\ spc' = "check" /\ (sstale \/ ~Alive(sproc)))
          => /\ sproc' # sproc
             /\ pc'[sproc'] = "recover"
             /\ \A w \in Workers \ {sproc'} : ~Alive(w)']_vars

\* the last check found the heartbeat stale, the worker it killed was in a
\* pipeline call, and a fresh worker process has been started
C18_Witness ==
    /\ spc = "check" /\ sstale /\ hb = "stale"
    /\ pc[sproc] = "recover"
    /\ \E j \in LiveJobs : store[j].status = "RUNNING" /\ lock[j]

\* C19: at most one worker polling loop runs against the job store at any
\* instant.
C19_OneWorkerLoop == Cardinality({w \in Workers : Alive(w)}) <= 1

\* C20: after the worker loop was left by an exception or interrupt and
\* run_worker_loop has returned, neither the heartbeat nor the PID file exists.
C20_CleanExitRemovesFiles ==
    \A w \in Workers : pc[w] = "done" => (hb = "absent" /\ ~pidf)

\* a worker has processed a job, left its loop and returned
C20_Witness ==
    \E w \in Workers :
        /\ pc[w] = "done" /\ hb = "absent" /\ ~pidf
        /\ \E j \in LiveJobs : store[j].status = "COMPLETED"

\* C21: a reader never observes a partially written job record, whatever
\* writers run at the same time and wherever a writer died.
C21_ReaderSeesWholeRecord == seen # "empty"

C23_FailedCreateNotReported ==
    ~writable => cret.kind # "dict" /\ shown # "Job submitted"

\* C24: load_job of an id without a stored record raises a not-found error and
\* leaves the store unchanged.
C24_LoadMissingRaisesNotFound ==
    [][(lid' # lid \/ lres' # lres) /\ lid' \notin StoredIds(disk) =>
         /\ lres'.raised = "FileNotFoundError"
         /\ lres'.value = <<>>
         /\ disk' = disk]_vars

\* a load of a missing job raised while another job is stored
C24_Witness ==
    /\ lid \in ApiIds \ StoredIds(disk)
    /\ lres.raised = "FileNotFoundError"
    /\ disk # {}

\* C25: list_jobs returns the stored jobs newest first by created_at, whatever
\* has touched the jobs since they were created.
C25_ListedNewestCreatedFirst ==
    \A i, k \in 1..Len(listed) : i < k => ctime[listed[i]] > ctime[listed[k]]

\* C26: no retention step deletes a job that is QUEUED or RUNNING, and a
\* CANCELLED job is deleted only by the creation-time pass, once it is older
\* than 48 hours.
C26_RetentionSparesActive ==
    [][\A r \in pop \ pop' :
         /\ r.status \in Terminal
         /\ r.status = "CANCELLED" => (last' = "pass" /\ r.age > RETENTION_HOURS)]_vars

\* the creation-time pass has deleted a CANCELLED job
C26_Witness ==
    /\ last = "pass"
    /\ \E r \in was \ pop : r.status = "CANCELLED"

\* C27: after a sweeper run no COMPLETED or FAILED job older than the 7 days
\* remains, however many finished jobs there are.
C27_NoOldFinishedJobLeft ==
    last = "sweep" => \A r \in SweepTerminal(pop) : ~TooOld(r)

\* finished jobs within the age ceiling
WithinAge(P) == {r \in SweepTerminal(P) : ~TooOld(r)}

\* C28: after a sweeper run, of the COMPLETED/FAILED jobs within the age
\* ceiling exactly the newest 50 by created_at remain, all of them when there
\* are fewer.
C28_NewestFiftyRemain ==
    last = "sweep" => SweepTerminal(pop) = Newest(WithinAge(was), MAX_COMPLETED_JOBS)

Max(a, b) == IF a >= b THEN a ELSE b
Min(a, b) == IF a <= b THEN a ELSE b

C30_SweepIsolatesFailures ==
    (last = "sweep" /\ \E r \in was : r.status = "unreadable")
        => /\ \A r \in SweepTerminal(pop) : ~TooOld(r)
           /\ Cardinality(SweepTerminal(pop)) <= MAX_COMPLETED_JOBS

\* C40: no retention step, the per-cycle pass included, deletes a COMPLETED or
\* FAILED job that is younger than the 7 days and among the newest 50 terminal
\* jobs by created_at.
C40_YoungAndNewestSurvive ==
    [][\A r \in pop :
         (r \in SweepTerminal(pop) /\ ~TooOld(r)
            /\ r \in Newest(SweepTerminal(pop), MAX_COMPLETED_JOBS))
            => r \in pop']_vars

\* executors other than worker loop w that are inside a pipeline call for job j
OtherExecutors(w, j) ==
    {v \in Workers \ {w} : wjob[v] = j /\ pc[v] = "run"}
      \cup {u \in {0} : upc[j] = "exec" /\ store[j].status = "RUNNING"}

\* C39: startup recovery does not force a job back to QUEUED while another
\* executor (a worker loop or the UI's submit thread) is still running it.
C39_RecoveryRequeuesOnlyOrphans ==
    [][\A w \in Workers :
         (pc[w] = "recover_save" /\ pc'[w] = "recover"
            /\ Live(wjob[w]) /\ OtherExecutors(w, wjob[w]) # {})
            => store'[wjob[w]].status # "QUEUED"]_vars

\* the UI thread of job j is inside its pipeline call
UiInCall(j) == upc[j] = "exec" /\ (uops[j] = <<>> \/ Head(uops[j]) = "progress")

\* the pipeline calls for job j that are under way
CallsUnderWay(j) ==
    Cardinality({w \in Workers : wjob[w] = j /\ pc[w] = "run"})
      + (IF UiInCall(j) THEN 1 ELSE 0)

\* C36: over a job's whole life the pipeline is called for it at most
\* MAX_ATTEMPTS times, by the worker and the UI's submit thread together, and
\* no two of these calls overlap.
C36_AtMostMaxCallsNoOverlap ==
    \A j \in Jobs : runs[j] <= MAX_ATTEMPTS /\ CallsUnderWay(j) <= 1

\* C34: a GET on the health path is answered 200 with the heartbeat document
\* when the heartbeat file is present and parseable, and 503 with a document
\* whose status is "unknown" otherwise.
C34_HealthReflectsHeartbeat ==
    [][(hpath' # hpath \/ resp' # resp) /\ hpath' \in {"/health", "/health/"} =>
         IF hfile.state = "whole"
         THEN resp'.status = 200 /\ resp'.body = hfile.doc
         ELSE resp'.status = 503 /\ resp'.body.status = dumps("'unknown'")]_vars

\* the health path was asked for while the heartbeat file was half written
C34_Witness ==
    /\ hpath = "/health"
    /\ hfile.state = "partial"
    /\ resp.status = 503

\* C35: the heartbeat written after the worker has processed a job names that
\* job and its attempts, whether or not the progress callback was invoked.
C35_HeartbeatNamesProcessedJob ==
    [][(hpos' = "poll" /\ hpos \in {"beat", "beat_fb"}) =>
         (loads(hfile'.doc.last_job_id) = hjob.id
            /\ loads(hfile'.doc.last_job_attempts) = hjob.attempts)]_vars

\* C33: when the pipeline call succeeded and writing the artifacts fails, the
\* job is saved COMPLETED with its attempts unchanged and a note of the
\* artifact-save failure appended to worker_notes.
C33_ArtifactFailureStillCompletes ==
    (adone /\ ArtifactsRaise(ares, afail)) =>
        /\ asaved.status = "COMPLETED"
        /\ asaved.attempts = ajob.attempts
        /\ asaved.worker_notes = Append(ajob.worker_notes, "Artifact save error")

\* the csv was written, the write of the plots raised, in a second attempt
C33_Witness ==
    /\ adone
    /\ afail = "plots" /\ ares.csv /\ ares.plots
    /\ ajob.attempts = MAX_ATTEMPTS
    /\ asaved.output_files = <<"results.csv">>

\* positions inside the `for` body of the polling loop after the pipeline call
AfterCall == {"unlock", "beat", "beat_fb"}

\* C32: an exception raised while a job is processed, in the worker's call or
\* inside the pipeline, does not leave the polling loop: the job's record gets
\* the failure (status, last_error, message), and the worker goes on with the
\* rest of the pass and the next directory entry.
C32_JobFailureStaysInLoop ==
    [][\A w \in Workers :
         /\ (pc[w] = "run" /\ pc'[w] # "run" /\ wres'[w] \in {"raise", "pipefail"})
               => /\ pc'[w] = "unlock"
                  /\ Live(wjob[w]) =>
                        /\ store'[wjob[w]].status \in {"QUEUED", "FAILED"}
                        /\ store'[wjob[w]].last_error
                        /\ store'[wjob[w]].message # ""
         /\ (wres[w] \in {"raise", "pipefail"} /\ pc[w] \in AfterCall)
               => pc'[w] \in AfterCall \cup {"poll", "off"}]_vars

\* C31: in every poll cycle that begins more than the cleanup interval after
\* the previous sweep, _cleanup_jobs has been run by the end of the cycle, also
\* when no job was claimed in it.
C31_SweepEveryDueCycle ==
    [][\A w \in Workers : (CycleEnds(w) /\ due0[w]) => swept[w]]_vars


\* the supervisor's restart step kills the worker process it supervises
SupKills(w) ==
    /\ spc = "act" /\ spc' = "check"
    /\ sproc = w /\ Alive(w)
    /\ pc'[w] = "off"

\* C37: the supervisor never kills a worker process that is alive and going
\* through its poll loop outside a pipeline call: neither an idle worker that
\* finds no job to claim, nor a freshly started worker while the heartbeat file
\* of its killed predecessor is still on disk.
C37_PollingWorkerNotKilled ==
    [][\A w \in Workers : SupKills(w) => pc[w] = "run"]_vars


\* worker w is in the pipeline call for job j
InCall(w, j) == pc[w] = "run" /\ wjob[w] = j

\* C38: under the supervisor, a job whose pipeline call is not hung but takes
\* longer than the staleness threshold still eventually reaches COMPLETED or
\* FAILED.
C38_LongJobEventuallyDone ==
    \A j \in Jobs :
        (\E w \in Workers : InCall(w, j))
            ~> (Live(j) /\ store[j].status \in {"COMPLETED", "FAILED"})

====
